---- MODULE Spec2Model ----
(***************************************************************************)
(* A model of ServiceTitanIntegration (src/service_titan_integration.py): *)
(* the response classifier _handle_response, the request helper           *)
(* _make_request, initialize, fetch_context_media, download_image,         *)
(* add_attachment and _upload_media.                                       *)
(*                                                                         *)
(* Python values are records tagged by the field t.  A Python str or bytes *)
(* is a sequence of tokens; a token is one character (or byte) where the   *)
(* code looks at characters (strip, quote, decode) and an opaque chunk of  *)
(* ordinary characters elsewhere.                                          *)
(***************************************************************************)
EXTENDS Integers, Sequences, FiniteSets, TLC

VARIABLES headers, network_requester, inits, calls, requests, uploads,
          hResp, hOut, fResp, fOut, uArgs, uBody

vars == <<headers, network_requester, inits, calls, requests, uploads,
          hResp, hOut, fResp, fOut, uArgs, uBody>>

clientVars == <<headers, network_requester, inits, calls, requests, uploads>>
handleVars == <<hResp, hOut>>
fetchVars == <<fResp, fOut>>
uploadVars == <<uArgs, uBody>>

(***************************************************************************)
(* Bounds of the model.                                                    *)
(***************************************************************************)
MaxCalls == 2
MaxItems == 2
MaxFileLen == 2
MaxInits == 1

(***************************************************************************)
(* Python values.                                                          *)
(***************************************************************************)
None_ == [t |-> "none"]
Absent == [t |-> "absent"]
NotJson == [t |-> "notjson"]
Pending == [tag |-> "pending"]

Str(s) == [t |-> "str", s |-> s]
Bytes(s) == [t |-> "bytes", s |-> s]
PyInt(n) == [t |-> "int", n |-> n]
List(xs) == [t |-> "list", items |-> xs]

Return(v) == [tag |-> "return", value |-> v]
Raise(e) == [tag |-> "raise", exc |-> e]

\* An exception object: its class, and the attributes the error classes carry.
Exc(cls, name, message, status, code) ==
    [cls |-> cls, integration_name |-> name, message |-> message,
     status_code |-> status, error_code |-> code]

BuiltinExc(cls, text) == Exc(cls, "", Str(<<text>>), 0, None_)

\* self.integration_name, set by super().__init__("service_titan")
integration_name == "service_titan"

\* IntegrationAuthError(message, status_code)
IntegrationAuthError(message, status) ==
    Exc("IntegrationAuthError", "", message, status, None_)

\* IntegrationAPIError(integration_name, message, status_code, error_code)
IntegrationAPIError(name, message, status, code) ==
    Exc("IntegrationAPIError", name, message, status, code)

\* str(e): the message of the exception
StrExc(e) == IF e.message.t = "str" THEN e.message.s ELSE <<"None">>

\* dict.get(key): the value, or None when the key is missing
Get(d, k) == IF k \in DOMAIN d /\ d[k] # Absent THEN d[k] ELSE None_

\* Python truthiness
Truthy(v) ==
    CASE v.t = "none" -> FALSE
      [] v.t = "str" -> v.s # <<>>
      [] v.t = "bytes" -> v.s # <<>>
      [] v.t = "int" -> v.n # 0
      [] v.t = "list" -> v.items # <<>>
      [] v.t = "dict" -> \E k \in DOMAIN v \ {"t"} : v[k] # Absent
      [] OTHER -> TRUE

Whitespace == {" ", "\n"}

RECURSIVE LStrip(_)
LStrip(s) == IF s # <<>> /\ Head(s) \in Whitespace THEN LStrip(Tail(s)) ELSE s

RECURSIVE RStrip(_)
RStrip(s) ==
    IF s # <<>> /\ s[Len(s)] \in Whitespace
    THEN RStrip(SubSeq(s, 1, Len(s) - 1))
    ELSE s

\* str.strip() and bytes.strip()
Strip(s) == RStrip(LStrip(s))

\* The byte that is no valid UTF-8
BadByte == "\\xff"

\* bytes.decode('utf-8') succeeds
Decodable(s) == \A i \in 1..Len(s) : s[i] # BadByte

(***************************************************************************)
(* urllib.parse.quote with its default safe="/": letters, digits and       *)
(* "_.-~/" are kept, every other character becomes %XX.                    *)
(***************************************************************************)
QuoteChar(c) ==
    CASE c = " " -> <<"%", "2", "0">>
      [] c = "%" -> <<"%", "2", "5">>
      [] c = "?" -> <<"%", "3", "F">>
      [] c = "&" -> <<"%", "2", "6">>
      [] OTHER -> <<c>>

RECURSIVE QuoteSeq(_)
QuoteSeq(s) == IF s = <<>> THEN <<>> ELSE QuoteChar(Head(s)) \o QuoteSeq(Tail(s))

\* quote(v): a TypeError for anything that is no str or bytes
Quote(v) ==
    IF v.t \in {"str", "bytes"}
    THEN Return(Str(QuoteSeq(v.s)))
    ELSE Raise(BuiltinExc("TypeError", "quote_from_bytes() expected bytes"))

(***************************************************************************)
(* str(n) for a non-negative integer, digit by digit.                      *)
(***************************************************************************)
Digit(d) ==
    CASE d = 0 -> "0" [] d = 1 -> "1" [] d = 2 -> "2" [] d = 3 -> "3"
      [] d = 4 -> "4" [] d = 5 -> "5" [] d = 6 -> "6" [] d = 7 -> "7"
      [] d = 8 -> "8" [] d = 9 -> "9"

RECURSIVE IntToStr(_)
IntToStr(n) == IF n < 10 THEN <<Digit(n)>> ELSE IntToStr(n \div 10) \o <<Digit(n % 10)>>

(***************************************************************************)
(* An HTTP response as aiohttp presents it: status, reason phrase, whether *)
(* the Content-Type is application/json, the x-message header, and the     *)
(* body: its raw bytes and what json.loads makes of them.                  *)
(***************************************************************************)
Reason(status) ==
    CASE status = 200 -> "OK"
      [] status = 201 -> "Created"
      [] status = 400 -> "Bad Request"
      [] status = 401 -> "Unauthorized"
      [] status = 404 -> "Not Found"
      [] OTHER -> "Internal Server Error"

Body(raw, json) == [raw |-> raw, json |-> json]

Response(status, ctypeJson, xmsg, body) ==
    [status |-> status, reason |-> Reason(status), ctypeJson |-> ctypeJson,
     xmsg |-> xmsg, body |-> body]

\* response.read()
Read(r) == Return(Bytes(r.body.raw))

\* response.text(): decodes the body, strictly
Text(r) ==
    IF Decodable(r.body.raw)
    THEN Return(Str(r.body.raw))
    ELSE Raise(BuiltinExc("UnicodeDecodeError", "invalid start byte"))

\* response.json(): the content type is checked first, an empty body is None
Json(r) ==
    IF ~r.ctypeJson
    THEN Raise(BuiltinExc("ContentTypeError", "Attempt to decode JSON with unexpected mimetype"))
    ELSE IF Strip(r.body.raw) = <<>> THEN Return(None_)
    ELSE IF ~Decodable(r.body.raw)
    THEN Raise(BuiltinExc("UnicodeDecodeError", "invalid start byte"))
    ELSE IF r.body.json = NotJson
    THEN Raise(BuiltinExc("JSONDecodeError", "Expecting value"))
    ELSE Return(r.body.json)

\* response.headers.get("x-message")
XMessage(r) == IF r.xmsg = Absent THEN None_ ELSE r.xmsg

\* f"{value}"
Format(v) ==
    CASE v.t = "none" -> <<"None">>
      [] v.t = "str" -> v.s
      [] v.t = "bytes" -> <<"b'">> \o v.s \o <<"'">>
      [] v.t = "int" -> IntToStr(v.n)
      [] v.t = "list" -> IF v.items = <<>> THEN <<"[]">> ELSE <<"[...]">>
      [] v.t = "dict" -> IF Truthy(v) THEN <<"{...}">> ELSE <<"{}">>
      [] OTHER -> <<"?">>

(***************************************************************************)
(* _handle_response                                                        *)
(***************************************************************************)
HandleResponse(r) ==
    IF r.status = 200
    THEN LET t == Text(r)
             j == Json(r)
         IN  IF t.tag = "raise" THEN t
             ELSE IF j.tag = "raise" /\ j.exc.cls \in {"JSONDecodeError", "ContentTypeError"}
             THEN Read(r)
             ELSE j
    ELSE LET response_json == Json(r)
         IN  IF response_json.tag = "raise" THEN response_json
             ELSE IF r.status = 401
             THEN Raise(IntegrationAuthError(Str(<<"ServiceTitan: Auth failed">>), r.status))
             ELSE IF r.status = 400
             THEN Raise(IntegrationAPIError(integration_name, Str(<<r.reason>>),
                                            r.status, Str(<<r.reason>>)))
             ELSE Raise(IntegrationAPIError(integration_name, Str(Format(XMessage(r))),
                                            r.status, Str(<<r.reason>>)))

(***************************************************************************)
(* __init__: the fixed URLs.                                               *)
(***************************************************************************)
domain == "next.servicetitan.com"
url == <<"https://", domain>>
api_url == url \o <<"/app/api">>
user_agent == "Mozilla/5.0"

(***************************************************************************)
(* _upload_media, lines 185-218: the multipart body, built by hand.  The   *)
(* body is the sequence of its pieces: the literal pieces of the f-strings *)
(* and the characters of the interpolated values.                          *)
(***************************************************************************)
boundary == "----WebKitFormBoundaryCUVolhkgYrclodXz"
CRLF == "\r\n"

\* fields: the dict of the nine form fields, in insertion order
FieldsReordered(content_type, file_size, file_name, unique_id) ==
    << <<"resumableChunkNumber", <<"1">> >>,
       <<"resumableTotalChunks", <<"1">> >>,
       <<"resumableChunkSize", IntToStr(file_size)>>,
       <<"resumableCurrentChunkSize", IntToStr(file_size)>>,
       <<"resumableTotalSize", IntToStr(file_size)>>,
       <<"resumableType", content_type>>,
       <<"resumableIdentifier", unique_id>>,
       <<"resumableFilename", file_name>>,
       <<"resumableRelativePath", file_name>> >>

Fields(content_type, file_size, file_name, unique_id) ==
    << <<"resumableChunkNumber", <<"1">> >>,
       <<"resumableChunkSize", IntToStr(file_size)>>,
       <<"resumableCurrentChunkSize", IntToStr(file_size)>>,
       <<"resumableTotalSize", IntToStr(file_size)>>,
       <<"resumableType", content_type>>,
       <<"resumableIdentifier", unique_id>>,
       <<"resumableFilename", file_name>>,
       <<"resumableRelativePath", file_name>>,
       <<"resumableTotalChunks", <<"1">> >> >>

\* the three appends of the loop over fields.items()
FormField(key, value) ==
    <<"--", boundary, CRLF>>
    \o <<"Content-Disposition: form-data; name=\"", key, "\"", CRLF, CRLF>>
    \o value \o <<CRLF>>

RECURSIVE FormFields(_)
FormFields(fields) ==
    IF fields = <<>> THEN <<>>
    ELSE FormField(Head(fields)[1], Head(fields)[2]) \o FormFields(Tail(fields))

\* the three appends of the file part
FilePartHeader ==
    <<"--", boundary, CRLF>>
    \o <<"Content-Disposition: form-data; name=\"", "file", "\"; filename=\"", "blob", "\"", CRLF>>
    \o <<"Content-Type: ", "application/octet-stream", CRLF, CRLF>>

final_boundary == <<CRLF, "--", boundary, "--", CRLF>>

\* len(file_content)
FileSize(file_content) == Len(file_content)

UploadBody(content_type, file_content, file_name, unique_id) ==
    FormFields(Fields(content_type, FileSize(file_content), file_name, unique_id))
    \o FilePartHeader \o file_content \o final_boundary

(***************************************************************************)
(* fetch_context_media, lines 98-111: the loop over the response.          *)
(***************************************************************************)
AttachLink(name) == url \o <<"/Attach/Customer?name=">> \o name

NoAttr(what) == BuiltinExc("AttributeError", what)

\* one pass of the loop body
Attached(item) ==
    IF item.t # "dict" THEN Raise(NoAttr("object has no attribute 'get'"))
    ELSE LET file_name == Quote(Get(item, "filename"))
         IN  IF file_name.tag = "raise" THEN file_name
             ELSE Return([t |-> "dict",
                          name |-> Get(item, "title"),
                          created |-> Get(item, "createdOn"),
                          url |-> Str(AttachLink(file_name.value.s)),
                          id |-> Get(item, "id")])

RECURSIVE AttachmentsOf(_)
AttachmentsOf(items) ==
    IF items = <<>> THEN Return(List(<<>>))
    ELSE LET first == Attached(Head(items))
             rest == AttachmentsOf(Tail(items))
         IN  IF first.tag = "raise" THEN first
             ELSE IF rest.tag = "raise" THEN rest
             ELSE Return(List(<<first.value>> \o rest.value.items))

\* "for item in response": what iterating the response yields
Iterate(response) ==
    CASE response.t = "list" -> Return(response.items)
      [] response.t \in {"bytes", "str"} ->
            Return([i \in 1..Len(response.s) |-> Str(<<response.s[i]>>)])
      [] response.t = "dict" ->
            IF Truthy(response) THEN Return(<<Str(<<"key">>)>>) ELSE Return(<<>>)
      [] OTHER -> Raise(BuiltinExc("TypeError", "object is not iterable"))

\* the method, from the outcome of its _make_request
FetchContextMedia(o) ==
    IF o.tag = "raise" THEN o
    ELSE LET it == Iterate(o.value)
         IN  IF it.tag = "raise" THEN it ELSE AttachmentsOf(it.value)

(***************************************************************************)
(* _make_request: one aiohttp request is made and its response classified. *)
(* A transport collaborator, when one was supplied, is handed the request  *)
(* and _handle_response; it is taken to send the request once and to       *)
(* return what _handle_response returns (a retry policy of its own is no   *)
(* part of this repository).  A reply is a response, or no response at all *)
(* (the connection failed).                                                *)
(***************************************************************************)
ConnectionFailed == [status |-> 0]
Transport == [t |-> "transport"]

MakeRequest(reply) ==
    IF reply = ConnectionFailed
    THEN Raise(BuiltinExc("ClientConnectorError", "Cannot connect to host"))
    ELSE HandleResponse(reply)

(***************************************************************************)
(* initialize, lines 78-88.                                                *)
(***************************************************************************)
\* helpers.tools.cookie_dict_to_string, for a one-cookie mapping
cookie_dict_to_string(token) == token.name \o "=" \o token.value

InitialHeaders(token) ==
    [t |-> "dict",
     h |-> [Host |-> domain,
            UserAgent |-> user_agent,
            Accept |-> "application/json",
            XRequestedWith |-> "XMLHttpRequest",
            Cookie |-> IF token.t = "dict" THEN cookie_dict_to_string(token)
                       ELSE token.s]]

\* dict.update
Update(d, entries) == [t |-> "dict", h |-> entries @@ d.h]

(***************************************************************************)
(* What each operation does with the header set: the dict it sends (local) *)
(* and self.headers afterwards (self).                                     *)
(***************************************************************************)
\* fetch_context_media, line 97: self.headers itself is passed
FetchHeaders(h) == [local |-> h, self |-> h]

ImageAccept == "image/avif,image/webp,image/apng,image/svg+xml,image/*,*/*;q=0.8"

DownloadHeadersAliased(h) ==
    LET mine == Update(h, [Accept |-> ImageAccept, AcceptEncoding |-> "gzip, deflate"])
    IN  [local |-> mine, self |-> mine]

\* download_image, lines 114-116
DownloadHeaders(h) ==
    [local |-> Update(h, [Accept |-> ImageAccept, AcceptEncoding |-> "gzip, deflate"]),
     self |-> h]

\* add_attachment, lines 149-151
AttachHeaders(h) ==
    [local |-> Update(h, [ContentType |-> "application/json", Accept |-> "application/json"]),
     self |-> h]

\* _upload_media, lines 220-225
UploadHeaders(h) ==
    [local |-> Update(h, [Accept |-> "*/*", XRequestedWith |-> "XMLHttpRequest",
                          ContentType |-> "multipart/form-data; boundary=" \o boundary]),
     self |-> h]

(***************************************************************************)
(* _upload_media, lines 233-247: from the outcome of the upload request to *)
(* the generated filename.  Whatever is raised inside is wrapped.          *)
(***************************************************************************)
UploadedName(o) ==
    IF o.tag = "raise" THEN o
    ELSE IF ~Truthy(o.value)
    THEN Raise(BuiltinExc("ValueError", "Failed to get response from upload endpoint"))
    ELSE IF o.value.t = "bytes"
    THEN IF Decodable(o.value.s)
         THEN Return(Str(Strip(o.value.s)))
         ELSE Raise(BuiltinExc("UnicodeDecodeError", "invalid start byte"))
    ELSE Return(Str(Strip(Format(o.value))))

UploadMedia(o) ==
    LET r == UploadedName(o)
    IN  IF r.tag = "raise"
        THEN Raise(IntegrationAPIError("service_titan",
                       Str(<<"Error uploading file: ">> \o StrExc(r.exc)), 500, None_))
        ELSE r

(***************************************************************************)
(* add_attachment                                                          *)
(***************************************************************************)
\* isinstance(e, IntegrationAPIError): the two error classes are siblings
IsAPIError(e) == e.cls = "IntegrationAPIError"

\* lines 173-181
AddAttachmentExcept(o) ==
    IF o.tag = "raise" /\ ~IsAPIError(o.exc)
    THEN Raise(IntegrationAPIError("service_titan",
                   Str(<<"Error attaching media: ">> \o StrExc(o.exc)), 500, None_))
    ELSE o

Success(link) == [t |-> "dict", success |-> [t |-> "bool", b |-> TRUE], url |-> Str(link)]

AttachOutcomeIgnoringError(link, o) ==
    IF o.tag = "raise" THEN o
    ELSE IF o.value.t # "dict" THEN Raise(NoAttr("object has no attribute 'get'"))
    ELSE Return(Success(link))

AttachOutcomeFixedMessage(link, o) ==
    IF o.tag = "raise" THEN o
    ELSE IF o.value.t # "dict" THEN Raise(NoAttr("object has no attribute 'get'"))
    ELSE IF Truthy(Get(o.value, "Error"))
    THEN IF Get(o.value, "Error").t # "dict"
         THEN Raise(NoAttr("object has no attribute 'get'"))
         ELSE Raise(IntegrationAPIError("service_titan", Str(<<"Attach failed">>), 404, None_))
    ELSE Return(Success(link))

\* lines 160-171, from the outcome of the attach request
AttachOutcome(link, o) ==
    IF o.tag = "raise" THEN o
    ELSE IF o.value.t # "dict" THEN Raise(NoAttr("object has no attribute 'get'"))
    ELSE IF Truthy(Get(o.value, "Error"))
    THEN IF Get(o.value, "Error").t # "dict"
         THEN Raise(NoAttr("object has no attribute 'get'"))
         ELSE Raise(IntegrationAPIError("service_titan",
                        Get(Get(o.value, "Error"), "Message"), 404, None_))
    ELSE Return(Success(link))

\* lines 144-148
AttachData(context_id, uploaded_name, file_name) ==
    [t |-> "dict", id |-> context_id, filename |-> uploaded_name,
     originalFilename |-> file_name]

(***************************************************************************)
(* download_image, lines 121-134                                           *)
(***************************************************************************)
DownloadOutcome(reply) ==
    IF reply = ConnectionFailed
    THEN Raise(BuiltinExc("ClientConnectorError", "Cannot connect to host"))
    ELSE IF reply.status = 200
    THEN Return([t |-> "dict", bytes |-> Bytes(reply.body.raw),
                 type |-> IF reply.ctypeJson THEN "application/json" ELSE "image/png"])
    ELSE Raise(IntegrationAPIError(integration_name,
                   Str(<<"Failed to download image: ">> \o IntToStr(reply.status)),
                   reply.status, Str(<<reply.reason>>)))

(***************************************************************************)
(* The responses the classifier is applied to.                             *)
(***************************************************************************)
Dict0 == [t |-> "dict", Error |-> Absent]
ErrorObj(message) == [t |-> "dict", Message |-> message]
DictError(e) == [t |-> "dict", Error |-> e]

Messages == {Str(<<"duplicate">>), Str(<<>>), None_}

JsonBodies ==
    {Body(<<"{}">>, Dict0),
     Body(<<"[]">>, List(<<>>)),
     Body(<<"null">>, None_),
     Body(<<"{\"Error\":{\"Message\":\"duplicate\"}}">>, DictError(ErrorObj(Str(<<"duplicate">>))))}

RawBodies ==
    {Body(<<>>, NotJson),
     Body(<<" ">>, NotJson),
     Body(<<"g", "e", "n">>, NotJson),
     Body(<<"g", BadByte>>, NotJson)}

Statuses == {200, 201, 400, 401, 500}

XMessages == {Absent, Str(<<"quota exceeded">>)}

Responses ==
    {Response(s, c, x, b) : s \in Statuses, c \in BOOLEAN, x \in XMessages,
                            b \in JsonBodies \cup RawBodies}

(***************************************************************************)
(* The classifier alone: a response arrives and is classified.             *)
(***************************************************************************)
InitHandle ==
    /\ hResp \in Responses
    /\ hOut = Pending
    /\ headers = None_ /\ network_requester = None_
    /\ inits = 0 /\ calls = <<>> /\ requests = <<>> /\ uploads = 0
    /\ fResp = None_ /\ fOut = Pending
    /\ uArgs = None_ /\ uBody = <<>>

Handle ==
    /\ hOut = Pending
    /\ hOut' = HandleResponse(hResp)
    /\ UNCHANGED <<hResp, clientVars, fetchVars, uploadVars>>

NextHandle == Handle

SpecHandle == InitHandle /\ [][NextHandle]_vars

(***************************************************************************)
(* The multipart builder alone.                                            *)
(***************************************************************************)
FileBytes == {"x", BadByte}

RECURSIVE SeqsUpTo(_, _)
SeqsUpTo(S, n) ==
    IF n = 0 THEN {<<>>}
    ELSE LET shorter == SeqsUpTo(S, n - 1)
         IN  shorter \cup {Append(q, x) : q \in shorter, x \in S}

LongFile == [i \in 1..12 |-> "x"]

FileContents == SeqsUpTo(FileBytes, MaxFileLen) \cup {LongFile}
FileNames == {<<"a", ".", "j", "p", "g">>, <<"b", " ", "c">>, <<>>}
ContentTypes == {<<"image/jpeg">>, <<"text/plain">>}
UniqueIds == {<<"uuid-1">>, <<"uuid-2">>}

UploadArgs ==
    [content_type : ContentTypes, file_content : FileContents,
     file_name : FileNames, unique_id : UniqueIds]

InitUpload ==
    /\ uArgs \in UploadArgs
    /\ uBody = <<>>
    /\ headers = None_ /\ network_requester = None_
    /\ inits = 0 /\ calls = <<>> /\ requests = <<>> /\ uploads = 0
    /\ hResp = None_ /\ hOut = Pending
    /\ fResp = None_ /\ fOut = Pending

BuildBody ==
    /\ uBody = <<>>
    /\ uBody' = UploadBody(uArgs.content_type, uArgs.file_content,
                           uArgs.file_name, uArgs.unique_id)
    /\ UNCHANGED <<uArgs, clientVars, handleVars, fetchVars>>

NextUpload == BuildBody

SpecUpload == InitUpload /\ [][NextUpload]_vars

(***************************************************************************)
(* The attachment listing alone: a parsed list response is mapped.         *)
(***************************************************************************)
ItemFilenames == {Absent, Str(<<"a", " ", "b">>), Str(<<"5", "%", "/", "x">>)}
ItemTitles == {Absent, Str(<<"Roof">>)}
ItemCreated == {Absent, Str(<<"2024-01-01">>)}
ItemIds == {Absent, PyInt(7)}

Items ==
    {[t |-> "dict", filename |-> f, title |-> n, createdOn |-> c, id |-> i] :
        f \in ItemFilenames, n \in ItemTitles, c \in ItemCreated, i \in ItemIds}

InitFetch ==
    /\ fResp \in {List(q) : q \in SeqsUpTo(Items, MaxItems)}
    /\ fOut = Pending
    /\ headers = None_ /\ network_requester = None_
    /\ inits = 0 /\ calls = <<>> /\ requests = <<>> /\ uploads = 0
    /\ hResp = None_ /\ hOut = Pending
    /\ uArgs = None_ /\ uBody = <<>>

Fetch ==
    /\ fOut = Pending
    /\ fOut' = FetchContextMedia(Return(fResp))
    /\ UNCHANGED <<fResp, clientVars, handleVars, uploadVars>>

NextFetch == Fetch

SpecFetch == InitFetch /\ [][NextFetch]_vars

(***************************************************************************)
(* The client: calls of the three operations on one instance, interleaved  *)
(* at their awaits.  Each call slot runs one call.                         *)
(***************************************************************************)
CallIds == 1..MaxCalls

\* initialize is given a cookie string and no transport, or a cookie mapping
\* and a transport
InitArgs ==
    {[token |-> Str("sid=A"), requester |-> None_],
     [token |-> [t |-> "dict", name |-> "sid", value |-> "B"], requester |-> Transport]}

AddArgs ==
    {[context_id |-> PyInt(7), file_name |-> <<"a", ".", "j", "p", "g">>,
      file_content |-> <<"x">>, content_type |-> <<"image/jpeg">>, context |-> "Customer"],
     [context_id |-> PyInt(8), file_name |-> <<"b", " ", "c">>,
      file_content |-> <<>>, content_type |-> <<"text/plain">>, context |-> "Job"]}

\* the argument the interleaved calls are given
FewAddArgs == {a \in AddArgs : a.context = "Customer"}

FetchArgs == {[context_id |-> PyInt(7), context_type |-> PyInt(1)]}
DownloadArgs == {[link |-> AttachLink(<<"a">>)]}

\* the name the server generates for its n-th upload
GeneratedName(n) == <<"g", Digit(n)>>

UploadReplies(g) ==
    {Response(200, FALSE, Absent, Body(g, NotJson)),
     Response(200, FALSE, Absent, Body(g \o <<"\n">>, NotJson)),
     Response(200, TRUE, Absent, Body(<<"\"">> \o g \o <<"\"">>, Str(g))),
     Response(200, TRUE, Absent, Body(<<"{\"Error\":{\"Message\":\"too large\"}}">>,
                                      DictError(ErrorObj(Str(<<"too large">>))))),
     Response(200, FALSE, Absent, Body(<<>>, NotJson)),
     Response(200, FALSE, Absent, Body(<<"g", BadByte>>, NotJson)),
     Response(401, TRUE, Absent, Body(<<"{}">>, Dict0)),
     Response(401, FALSE, Absent, Body(<<"Unauthorized">>, NotJson)),
     Response(400, TRUE, Absent, Body(<<"{}">>, Dict0)),
     Response(500, TRUE, Str(<<"quota exceeded">>), Body(<<"{}">>, Dict0)),
     ConnectionFailed}

ErrorValues ==
    {None_, Str(<<"bad">>), ErrorObj(Absent),
     [t |-> "dict", Message |-> Absent, Code |-> PyInt(5)]}
    \cup {ErrorObj(m) : m \in Messages \cup {PyInt(0)}}

AttachReplies ==
    {Response(200, TRUE, Absent, Body(<<"{\"Error\":..}">>, DictError(e))) : e \in ErrorValues}
    \cup
    {Response(200, TRUE, Absent, Body(<<"{}">>, Dict0)),
     Response(200, TRUE, Absent, Body(<<"[]">>, List(<<>>))),
     Response(200, TRUE, Absent, Body(<<"null">>, None_)),
     Response(200, TRUE, Absent, Body(<<>>, NotJson)),
     Response(200, FALSE, Absent, Body(<<"OK">>, NotJson)),
     Response(200, FALSE, Absent, Body(<<"{\"Error\":{\"Message\":\"duplicate\"}}">>,
                                       DictError(ErrorObj(Str(<<"duplicate">>))))),
     Response(401, TRUE, Absent, Body(<<"{}">>, Dict0)),
     Response(400, TRUE, Absent, Body(<<"{}">>, Dict0)),
     Response(404, TRUE, Absent, Body(<<"{}">>, Dict0)),
     Response(500, TRUE, Str(<<"quota exceeded">>), Body(<<"{}">>, Dict0)),
     ConnectionFailed}

\* the replies the interleaved calls are run against
FewUploadReplies(g) ==
    {Response(200, FALSE, Absent, Body(g, NotJson)),
     Response(200, TRUE, Absent, Body(<<"{\"Error\":{\"Message\":\"too large\"}}">>,
                                      DictError(ErrorObj(Str(<<"too large">>))))),
     Response(401, TRUE, Absent, Body(<<"{}">>, Dict0)),
     ConnectionFailed}

FewAttachReplies ==
    {Response(200, TRUE, Absent, Body(<<"{}">>, Dict0)),
     Response(200, TRUE, Absent, Body(<<"{\"Error\":{\"Message\":\"duplicate\"}}">>,
                                      DictError(ErrorObj(Str(<<"duplicate">>)))))}

FetchReplies ==
    {Response(200, TRUE, Absent,
              Body(<<"[{..}]">>, List(<<[t |-> "dict", filename |-> Str(<<"a", " ", "b">>),
                                          title |-> Str(<<"Roof">>), createdOn |-> Absent,
                                          id |-> PyInt(7)]>>))),
     Response(401, TRUE, Absent, Body(<<"{}">>, Dict0))}

DownloadReplies ==
    {Response(200, FALSE, Absent, Body(<<"x", BadByte>>, NotJson)),
     Response(404, FALSE, Absent, Body(<<>>, NotJson))}

\* A call: its operation, where it stands, its locals and its result; and, for
\* the record, whether initialize had run when it started and the replies it got.
IdleCall ==
    [op |-> "none", pc |-> "idle", args |-> None_, uploaded_name |-> None_,
     link |-> <<>>, result |-> Pending, initialized |-> FALSE, replies |-> <<>>]

Started(op, pc, a) ==
    [IdleCall EXCEPT !.op = op, !.pc = pc, !.args = a, !.initialized = headers # None_]

Request(c, step, via, method, to, hdrs, payload) ==
    [call |-> c, step |-> step, via |-> via, method |-> method, url |-> to,
     hdrs |-> hdrs, payload |-> payload]

\* the requests a call has sent at a step
Sent(c, step) == {i \in 1..Len(requests) : requests[i].call = c /\ requests[i].step = step}

\* a call starts in the first free slot
Free(c) == calls[c].pc = "idle" /\ \A d \in 1..(c - 1) : calls[d].pc # "idle"

Init ==
    /\ headers = None_
    /\ network_requester = None_
    /\ inits = 0
    /\ calls = [c \in CallIds |-> IdleCall]
    /\ requests = <<>>
    /\ uploads = 0
    /\ hResp = None_ /\ hOut = Pending
    /\ fResp = None_ /\ fOut = Pending
    /\ uArgs = None_ /\ uBody = <<>>

Initialize(token, requester) ==
    /\ inits < MaxInits
    /\ inits' = inits + 1
    /\ headers' = InitialHeaders(token)
    /\ network_requester' = requester
    /\ UNCHANGED <<calls, requests, uploads, handleVars, fetchVars, uploadVars>>

\* fetch_context_media up to its await, lines 91-97
StartFetch(c, a) ==
    /\ Free(c)
    /\ LET h == FetchHeaders(headers)
       IN  /\ headers' = h.self
           /\ requests' = Append(requests,
                  Request(c, "fetch", network_requester, "GET",
                          api_url \o <<"/fam/attachments/">> \o Format(a.context_type)
                                  \o <<"/">> \o Format(a.context_id),
                          h.local,
                          [t |-> "dict", limit |-> "1000", photosVideosOnly |-> "true",
                           includeRelatedEntities |-> "false"]))
    /\ calls' = [calls EXCEPT ![c] = Started("fetch", "fetch", a)]
    /\ UNCHANGED <<network_requester, inits, uploads, handleVars, fetchVars, uploadVars>>

\* fetch_context_media after its await, lines 98-111
FinishFetch(c, reply) ==
    /\ calls[c].pc = "fetch"
    /\ calls' = [calls EXCEPT ![c].pc = "done",
                              ![c].replies = Append(@, reply),
                              ![c].result = FetchContextMedia(MakeRequest(reply))]
    /\ UNCHANGED <<headers, network_requester, inits, requests, uploads, handleVars, fetchVars, uploadVars>>

\* download_image up to its await, lines 114-120
StartDownload(c, a) ==
    /\ Free(c)
    /\ IF headers = None_
       THEN /\ calls' = [calls EXCEPT ![c] = [Started("download", "done", a) EXCEPT
                            !.result = Raise(NoAttr("'NoneType' object has no attribute 'copy'"))]]
            /\ UNCHANGED <<headers, requests>>
       ELSE LET h == DownloadHeaders(headers)
            IN  /\ headers' = h.self
                /\ requests' = Append(requests,
                       Request(c, "download", None_, "GET", a.link, h.local, None_))
                /\ calls' = [calls EXCEPT ![c] = Started("download", "download", a)]
    /\ UNCHANGED <<network_requester, inits, uploads, handleVars, fetchVars, uploadVars>>

\* download_image after its await, lines 121-134
FinishDownload(c, reply) ==
    /\ calls[c].pc = "download"
    /\ calls' = [calls EXCEPT ![c].pc = "done",
                              ![c].replies = Append(@, reply),
                              ![c].result = DownloadOutcome(reply)]
    /\ UNCHANGED <<headers, network_requester, inits, requests, uploads, handleVars, fetchVars, uploadVars>>

\* add_attachment and _upload_media up to the upload request, lines 138-232
StartAdd(c, a) ==
    /\ Free(c)
    /\ IF headers = None_
       THEN /\ calls' = [calls EXCEPT ![c] = [Started("add", "done", a) EXCEPT
                            !.result = AddAttachmentExcept(UploadMedia(
                                Raise(NoAttr("'NoneType' object has no attribute 'copy'"))))]]
            /\ UNCHANGED <<headers, requests>>
       ELSE LET h == UploadHeaders(headers)
            IN  /\ headers' = h.self
                /\ requests' = Append(requests,
                       Request(c, "upload", network_requester, "POST",
                               url \o <<"/upload/AttachmentChunkWithValidating">>,
                               h.local,
                               Bytes(UploadBody(a.content_type, a.file_content,
                                                a.file_name, <<"uuid-", Digit(c)>>))))
                /\ calls' = [calls EXCEPT ![c] = Started("add", "upload", a)]
    /\ UNCHANGED <<network_requester, inits, uploads, handleVars, fetchVars, uploadVars>>

\* the filename the attach request carries, line 146
AttachFilenameStale(c, uploaded_name) ==
    IF \E i \in 1..Len(requests) : requests[i].step = "attach"
    THEN LET last == CHOOSE i \in 1..Len(requests) :
                        /\ requests[i].step = "attach"
                        /\ \A j \in (i + 1)..Len(requests) : requests[j].step # "attach"
         IN  requests[last].payload.filename
    ELSE uploaded_name

AttachFilename(c, uploaded_name) == uploaded_name

\* from the upload's answer to the attach request, lines 233-159
FinishUpload(c, reply) ==
    /\ calls[c].pc = "upload"
    /\ uploads' = uploads + 1
    /\ LET up == UploadMedia(MakeRequest(reply))
           a == calls[c].args
       IN  IF up.tag = "raise"
           THEN /\ calls' = [calls EXCEPT ![c].pc = "done",
                                          ![c].replies = Append(@, reply),
                                          ![c].result = AddAttachmentExcept(up)]
                /\ UNCHANGED <<headers, requests>>
           ELSE LET h == AttachHeaders(headers)
                IN  /\ headers' = h.self
                    /\ requests' = Append(requests,
                           Request(c, "attach", network_requester, "POST",
                                   url \o <<"/", a.context, "/AddAttachment">>,
                                   h.local,
                                   AttachData(a.context_id, AttachFilename(c, up.value),
                                              Str(a.file_name))))
                    /\ calls' = [calls EXCEPT ![c].pc = "attach",
                                              ![c].replies = Append(@, reply),
                                              ![c].uploaded_name = up.value,
                                              ![c].link = AttachLink(up.value.s)]
    /\ UNCHANGED <<network_requester, inits, handleVars, fetchVars, uploadVars>>

\* from the attach's answer to the result, lines 160-181
FinishAttach(c, reply) ==
    /\ calls[c].pc = "attach"
    /\ calls' = [calls EXCEPT ![c].pc = "done",
                              ![c].replies = Append(@, reply),
                              ![c].result = AddAttachmentExcept(
                                  AttachOutcome(calls[c].link, MakeRequest(reply)))]
    /\ UNCHANGED <<headers, network_requester, inits, requests, uploads, handleVars, fetchVars, uploadVars>>

Next ==
    \/ \E a \in InitArgs : Initialize(a.token, a.requester)
    \/ \E c \in CallIds, a \in FetchArgs : StartFetch(c, a)
    \/ \E c \in CallIds, reply \in FetchReplies : FinishFetch(c, reply)
    \/ \E c \in CallIds, a \in DownloadArgs : StartDownload(c, a)
    \/ \E c \in CallIds, reply \in DownloadReplies : FinishDownload(c, reply)
    \/ \E c \in CallIds, a \in FewAddArgs : StartAdd(c, a)
    \/ \E c \in CallIds, reply \in FewUploadReplies(GeneratedName(uploads + 1)) :
          FinishUpload(c, reply)
    \/ \E c \in CallIds, reply \in FewAttachReplies : FinishAttach(c, reply)

Spec == Init /\ [][Next]_vars

(***************************************************************************)
(* One add_attachment call, run against every reply of the upload and the  *)
(* attach endpoint.                                                        *)
(***************************************************************************)
NextAdd ==
    \/ \E a \in InitArgs : Initialize(a.token, a.requester)
    \/ \E a \in AddArgs : StartAdd(1, a)
    \/ \E reply \in UploadReplies(GeneratedName(uploads + 1)) : FinishUpload(1, reply)
    \/ \E reply \in AttachReplies : FinishAttach(1, reply)

SpecAdd == Init /\ [][NextAdd]_vars

(***************************************************************************)
(*                              The claims                                 *)
(***************************************************************************)

\* ------------------------------------------------------------------ C1
\* C1: a response with status 401, whatever its body and content type, is
\* classified as an authentication error and nothing else.
C1_Status401IsAuthError ==
    (hOut # Pending /\ hResp.status = 401)
        => (hOut.tag = "raise" /\ hOut.exc.cls = "IntegrationAuthError")

\* ------------------------------------------------------------------ C5
\* C5: a response whose status is none of 200, 401, 400 is classified as a
\* service error whose message is the x-message header when the header is
\* present and the reason phrase otherwise.
C5_OtherStatusMessage ==
    (hOut # Pending /\ hResp.status \notin {200, 401, 400})
        => /\ hOut.tag = "raise"
           /\ hOut.exc.cls = "IntegrationAPIError"
           /\ hOut.exc.message = IF hResp.xmsg # Absent THEN hResp.xmsg
                                 ELSE Str(<<hResp.reason>>)

\* ------------------------------------------------------------------ C6
\* C6: a 200 response whose body is not JSON (text, binary, empty) is
\* answered with the raw body bytes and no error; the parsed value is
\* returned only when the JSON parse succeeds.
C6_NonJson200IsRawBytes ==
    (hOut # Pending /\ hResp.status = 200)
        => /\ hResp.body.json = NotJson => hOut = Return(Bytes(hResp.body.raw))
           /\ (hOut.tag = "return" /\ hOut.value # Bytes(hResp.body.raw))
                 => (hResp.body.json # NotJson /\ hOut.value = hResp.body.json)

\* ------------------------------------------------------------------ C8
BaseUrl == <<"https://", "next.servicetitan.com">>

\* C8: the listing maps an item sequence (empty, or with fields absent) to a
\* sequence of the same length and order; the i-th output carries the i-th
\* item's id, title and creation time and the link with the percent-encoded
\* filename.
C8_ListingMapsEveryItem ==
    fOut # Pending
        => /\ fOut.tag = "return"
           /\ fOut.value.t = "list"
           /\ Len(fOut.value.items) = Len(fResp.items)
           /\ \A i \in 1..Len(fResp.items) :
                 LET item == fResp.items[i]
                     out == fOut.value.items[i]
                 IN  /\ out.id = Get(item, "id")
                     /\ out.name = Get(item, "title")
                     /\ out.created = Get(item, "createdOn")
                     /\ out.url = Str(BaseUrl \o <<"/Attach/Customer?name=">>
                                              \o QuoteSeq(Get(item, "filename").s))

\* ------------------------------------------------------------------ C9
\* A multipart reader: the parts of a body, each with its name, its filename
\* and its value, when the body is a run of parts closed by the final boundary.
Malformed == <<[name |-> "?", filename |-> "?", value |-> <<>>]>>

Delimiter(b, j) ==
    j + 2 <= Len(b) /\ b[j] = "\r\n" /\ b[j + 1] = "--"
        /\ b[j + 2] = "----WebKitFormBoundaryCUVolhkgYrclodXz"

NextDelimiter(b, start) ==
    LET S == {j \in start..Len(b) : Delimiter(b, j)}
    IN  IF S = {} THEN 0 ELSE CHOOSE j \in S : \A k \in S : j <= k

IsFieldHeader(b, i) ==
    i + 7 <= Len(b) /\ b[i + 2] = "\r\n"
        /\ b[i + 3] = "Content-Disposition: form-data; name=\""
        /\ b[i + 5] = "\"" /\ b[i + 6] = "\r\n" /\ b[i + 7] = "\r\n"

IsFileHeader(b, i) ==
    i + 12 <= Len(b) /\ b[i + 2] = "\r\n"
        /\ b[i + 3] = "Content-Disposition: form-data; name=\""
        /\ b[i + 5] = "\"; filename=\"" /\ b[i + 7] = "\"" /\ b[i + 8] = "\r\n"
        /\ b[i + 9] = "Content-Type: " /\ b[i + 11] = "\r\n" /\ b[i + 12] = "\r\n"

RECURSIVE Parts(_, _)
Parts(b, i) ==
    IF ~(i + 1 <= Len(b) /\ b[i] = "--" /\ b[i + 1] = "----WebKitFormBoundaryCUVolhkgYrclodXz")
    THEN Malformed
    ELSE IF i + 3 = Len(b) /\ b[i + 2] = "--" /\ b[i + 3] = "\r\n" THEN <<>>
    ELSE IF ~(IsFieldHeader(b, i) \/ IsFileHeader(b, i)) THEN Malformed
    ELSE LET start == IF IsFieldHeader(b, i) THEN i + 8 ELSE i + 13
             j == NextDelimiter(b, start)
         IN  IF j = 0 THEN Malformed
             ELSE <<[name |-> b[i + 4],
                     filename |-> IF IsFieldHeader(b, i) THEN "" ELSE b[i + 6],
                     value |-> SubSeq(b, start, j - 1)]>>
                  \o Parts(b, j + 1)

DigitValue(ch) ==
    CASE ch = "0" -> 0 [] ch = "1" -> 1 [] ch = "2" -> 2 [] ch = "3" -> 3
      [] ch = "4" -> 4 [] ch = "5" -> 5 [] ch = "6" -> 6 [] ch = "7" -> 7
      [] ch = "8" -> 8 [] ch = "9" -> 9 [] OTHER -> -1000

RECURSIVE StrToInt(_)
StrToInt(digits) ==
    IF digits = <<>> THEN 0
    ELSE 10 * StrToInt(SubSeq(digits, 1, Len(digits) - 1)) + DigitValue(digits[Len(digits)])

NineFields ==
    <<"resumableChunkNumber", "resumableChunkSize", "resumableCurrentChunkSize",
      "resumableTotalSize", "resumableType", "resumableIdentifier",
      "resumableFilename", "resumableRelativePath", "resumableTotalChunks">>

\* C9: for every file content and file name the upload body is the nine
\* resumable-upload fields in their fixed order, one file part and the
\* closing boundary; chunk number and total chunks are 1 and the three sizes
\* are the length of the file content.
C9_UploadBodyLayout ==
    uBody # <<>>
        => LET parts == Parts(uBody, 1)
           IN  /\ Len(parts) = 10
               /\ \A i \in 1..9 : parts[i].name = NineFields[i] /\ parts[i].filename = ""
               /\ parts[1].value = <<"1">>
               /\ parts[9].value = <<"1">>
               /\ \A i \in {2, 3, 4} :
                     /\ parts[i].value # <<>>
                     /\ StrToInt(parts[i].value) = Len(uArgs.file_content)
               /\ parts[10].name = "file"
               /\ parts[10].filename = "blob"
               /\ parts[10].value = uArgs.file_content

C9_Witness == uBody # <<>> /\ uArgs.file_content = <<>>

\* ------------------------------------------------------------- C2, C3, C4
AddDone == {c \in DOMAIN calls : calls[c].op = "add" /\ calls[c].pc = "done"}

Classified(o) ==
    o.tag = "raise" /\ o.exc.cls \in {"IntegrationAuthError", "IntegrationAPIError"}

\* C2: in add_attachment an error the classifier raised (auth, client or
\* service error), at the upload or at the attach step, reaches the caller
\* unchanged; any other exception is wrapped into a service error carrying
\* the original message.
C2_ClassifiedErrorsUnchanged ==
    \A c \in AddDone :
        calls[c].replies # <<>>
            => LET o == MakeRequest(calls[c].replies[Len(calls[c].replies)])
                   result == calls[c].result
               IN  o.tag = "raise"
                     => IF Classified(o) THEN result = o
                        ELSE /\ result.tag = "raise"
                             /\ result.exc.cls = "IntegrationAPIError"
                             /\ Tail(result.exc.message.s) = StrExc(o.exc)

HasErrorEntry(v) == v.t = "dict" /\ "Error" \in DOMAIN v /\ v.Error # Absent

\* the result add_attachment gives on success
SuccessFor(c) ==
    Return([t |-> "dict", success |-> [t |-> "bool", b |-> TRUE],
            url |-> Str(BaseUrl \o <<"/Attach/Customer?name=">> \o calls[c].uploaded_name.s)])

\* the filename is the text the upload endpoint answered, stripped
NameIsFromUpload(c) ==
    LET up == calls[c].replies[1]
    IN  up.body.json = NotJson => calls[c].uploaded_name.s = Strip(up.body.raw)

\* C3 as stated: success exactly when the upload gave a filename and the
\* attach answered 200 with a (JSON object) body that has no Error entry; an
\* error in every other case.
C3_SuccessIffNoErrorEntry ==
    \A c \in AddDone :
        LET rs == calls[c].replies
        IN  IF /\ calls[c].uploaded_name # None_
               /\ Len(rs) = 2
               /\ rs[2] # ConnectionFailed
               /\ rs[2].status = 200
               /\ Json(rs[2]).tag = "return"
               /\ Json(rs[2]).value.t = "dict"
               /\ ~HasErrorEntry(Json(rs[2]).value)
            THEN calls[c].result = SuccessFor(c) /\ NameIsFromUpload(c)
            ELSE calls[c].result.tag = "raise"

\* the attach endpoint answered 200 with a JSON object whose Error entry is
\* missing or falsy (null, an empty object, an empty string, 0)
AttachAccepted(reply) ==
    /\ reply # ConnectionFailed
    /\ reply.status = 200
    /\ Json(reply).tag = "return"
    /\ Json(reply).value.t = "dict"
    /\ ~Truthy(Get(Json(reply).value, "Error"))

\* C3, amended: success exactly when the upload gave a filename and the attach
\* answered 200 with a JSON object whose Error entry is missing or falsy; an
\* error in every other case, and never a partial result.
C3_SuccessIffNoTruthyError ==
    \A c \in AddDone :
        LET rs == calls[c].replies
        IN  IF calls[c].uploaded_name # None_ /\ Len(rs) = 2 /\ AttachAccepted(rs[2])
            THEN calls[c].result = SuccessFor(c) /\ NameIsFromUpload(c)
            ELSE calls[c].result.tag = "raise"

C3_Witness ==
    \E c \in AddDone :
        /\ calls[c].result.tag = "return"
        /\ HasErrorEntry(calls[c].replies[2].body.json)

\* C4: when the attach endpoint answers 200 with a JSON body holding an Error
\* object with a Message, add_attachment raises a service error whose message
\* is that Message, whatever its value, and returns no success.
C4_ErrorMessageSurfaced ==
    \A c \in AddDone :
        LET rs == calls[c].replies
        IN  (/\ Len(rs) = 2
             /\ rs[2] # ConnectionFailed
             /\ rs[2].status = 200
             /\ Json(rs[2]).tag = "return"
             /\ HasErrorEntry(Json(rs[2]).value)
             /\ Json(rs[2]).value.Error.t = "dict"
             /\ "Message" \in DOMAIN Json(rs[2]).value.Error
             /\ Json(rs[2]).value.Error.Message # Absent)
            => /\ calls[c].result.tag = "raise"
               /\ calls[c].result.exc.cls = "IntegrationAPIError"
               /\ calls[c].result.exc.message = Json(rs[2]).value.Error.Message

C4_Witness ==
    \E c \in AddDone :
        /\ Len(calls[c].replies) = 2
        /\ calls[c].replies[2] # ConnectionFailed
        /\ calls[c].replies[2].body.json = DictError(ErrorObj(Str(<<"duplicate">>)))
        /\ calls[c].replies[2].ctypeJson
        /\ calls[c].result.tag = "raise"

\* ------------------------------------------------------------------ C7
AddCalls == {c \in DOMAIN calls : calls[c].op = "add"}

\* a call made without a transport collaborator
Direct(c) == \A i \in 1..Len(requests) : requests[i].call = c => requests[i].via = None_

UploadSucceeded(c) ==
    /\ calls[c].replies # <<>>
    /\ calls[c].replies[1] # ConnectionFailed
    /\ calls[c].replies[1].status = 200
    /\ calls[c].uploaded_name # None_

\* the attach requests of a call follow its answered upload and carry its name
AttachFollowsUpload(c) ==
    /\ Cardinality(Sent(c, "attach")) <= 1
    /\ \A i \in Sent(c, "attach") :
          /\ \E u \in Sent(c, "upload") : u < i
          /\ UploadSucceeded(c)
          /\ requests[i].payload.filename = calls[c].uploaded_name
          /\ NameIsFromUpload(c)
    /\ (calls[c].pc = "done" /\ ~UploadSucceeded(c)) => Sent(c, "attach") = {}

IsGenerated(name) == \E n \in 1..uploads : name = Str(GeneratedName(n))

\* no generated filename goes out in two attach requests
NoNameAttachedTwice ==
    \A i, j \in 1..Len(requests) :
        (/\ i < j
         /\ requests[i].step = "attach" /\ requests[j].step = "attach"
         /\ requests[i].via = None_ /\ requests[j].via = None_
         /\ IsGenerated(requests[i].payload.filename))
        => requests[i].payload.filename # requests[j].payload.filename

\* C7 as stated: every add_attachment call made without a transport sends
\* exactly one upload request and then at most one attach request, the attach
\* after its own upload succeeded and with that upload's filename; no
\* generated filename is attached twice; a failed upload sends no attach.
C7_OneUploadThenOneAttach ==
    /\ \A c \in AddCalls :
          Direct(c) => Cardinality(Sent(c, "upload")) = 1 /\ AttachFollowsUpload(c)
    /\ NoNameAttachedTwice

\* C7, amended: the same of every call made after initialize; a call made
\* before initialize sends no request at all.
C7_OneUploadThenOneAttachOnceInitialized ==
    /\ \A c \in AddCalls :
          Direct(c) =>
             /\ Cardinality(Sent(c, "upload")) = IF calls[c].initialized THEN 1 ELSE 0
             /\ AttachFollowsUpload(c)
    /\ NoNameAttachedTwice

\* two interleaved calls: the later call's attach went out first
C7_Witness ==
    \E c, d \in AddCalls :
        /\ c < d /\ Direct(c) /\ Direct(d)
        /\ \E i \in Sent(c, "attach"), j \in Sent(d, "attach") : j < i

\* ------------------------------------------------------------------ C10
AcceptOf(step) ==
    CASE step = "download" -> "image/avif,image/webp,image/apng,image/svg+xml,image/*,*/*;q=0.8"
      [] step = "upload" -> "*/*"
      [] OTHER -> "application/json"

\* C10: once initialize has run, no step of fetch_context_media,
\* download_image or add_attachment changes the stored header set, and every
\* request a call sends carries the stored Cookie and the Accept value of its
\* own operation.
C10_HeadersFrame ==
    [][/\ headers' # headers => inits' = inits + 1
       /\ (headers # None_ /\ Len(requests') = Len(requests) + 1)
             => LET r == requests'[Len(requests')]
                IN  /\ r.hdrs.h.Cookie = headers.h.Cookie
                    /\ r.hdrs.h.Accept = AcceptOf(r.step)]_vars

C10_Witness ==
    /\ headers # None_
    /\ headers.h.Accept = "application/json"
    /\ "ContentType" \notin DOMAIN headers.h
    /\ \E i, j \in 1..Len(requests) :
          requests[i].step = "download" /\ requests[j].step = "attach"

====
